---- MODULE Spec2Model ----
(***************************************************************************)
(* A model of mcu_safe_array.h: the class templates CArrayPtr, CSlice,     *)
(* Slice and Array, operator^=, operator<< and cast.                       *)
(*                                                                         *)
(* Memory is a flat array of bytes indexed by address.  A pointer is an    *)
(* address, NULL is address 0.  One Array<T, L> object lives at BufBase    *)
(* and a second, disjoint array of LS elements of T (the storage the       *)
(* source views of assign and operator<< point into) lives at SrcBase.     *)
(* A template instantiation whose static_asserts fail does not compile:    *)
(* the operation is recorded as rejected and nothing else changes.         *)
(***************************************************************************)
EXTENDS Integers, Sequences, FiniteSets, TLC

\* ------------------------------------------------------------------ bounds

\* Largest L of the Array that chained writes are run on.
MaxChainLen == 5

\* Largest value of the template parameter L of the Array.
MaxLen == 3

\* Number of operations performed on the Array and on the view.
MaxSteps == 2

\* sizeof(T) of the element types instantiated (unsigned char, a 2-byte type).
Sizes == {1, 2}

\* Values of type T passed to fill (restricted to those T can hold).
Vals == {0, 7, 300}

\* Values of the unsigned char operand of operator^=.
XorVals == {1, 255}

Byte == 0..255

MaxSizeofT == CHOOSE s \in Sizes : \A t \in Sizes : t <= s

VARIABLES
    sizeofT,   \* sizeof(T), the element type of the Array and of every view
    L,         \* template parameter L of the Array
    LS,        \* number of elements of the disjoint source storage
    mem,       \* memory: address -> byte
    cur,       \* the view object the program holds (a CSlice or a Slice)
    last,      \* the last operation: its parameters, acceptance and result
    steps      \* number of operations performed

vars == <<sizeofT, L, LS, mem, cur, last, steps>>

\* ------------------------------------------------------------ memory layout

NULL == 0

\* Bytes of unrelated memory around each object.
GuardBytes == MaxSizeofT

\* Address of Array::_data.
BufBase == 1 + GuardBytes

\* alignof(T): a scalar T is aligned to its size, the strictest it can be.
alignofT == sizeofT

RoundUp(n, a) == ((n + a - 1) \div a) * a

\* A non-static data member of a class: its size and its alignment.
Member(size, align) == [size |-> size, align |-> align]

\* The largest alignment among the members k.. of a class.
RECURSIVE MaxAlign(_, _)
MaxAlign(members, k) ==
    IF k > Len(members) THEN 1
    ELSE IF members[k].align >= MaxAlign(members, k + 1)
         THEN members[k].align
         ELSE MaxAlign(members, k + 1)

\* alignof a class: 1 when it is packed.
ClassAlign(members, packed) == IF packed THEN 1 ELSE MaxAlign(members, 1)

\* offsetof member k: members lie in declaration order, each at the next
\* multiple of its alignment (of 1 in a packed class).
RECURSIVE FieldOffset(_, _, _)
FieldOffset(members, packed, k) ==
    IF k = 1 THEN 0
    ELSE RoundUp(FieldOffset(members, packed, k - 1) + members[k - 1].size,
                 IF packed THEN 1 ELSE members[k].align)

\* sizeof a class with at least one member: the end of the last member,
\* rounded up to the alignment of the class.
ClassSize(members, packed) ==
    RoundUp(FieldOffset(members, packed, Len(members)) + members[Len(members)].size,
            ClassAlign(members, packed))

\* An Array that also stored its length in a member, as CArrayPtr does
\* (size_t of 2 bytes).
Array_members_with_size == <<Member(L * sizeofT, alignofT), Member(2, 2)>>

\* The data members of Array<T, L>: T _data[L].
Array_members == <<Member(L * sizeofT, alignofT)>>

\* __attribute__((packed))
Array_packed == TRUE

alignof_Array == ClassAlign(Array_members, Array_packed)

\* sizeof(Array<T, L>)
sizeof_Array == ClassSize(Array_members, Array_packed)

\* A structure with an Array<T, L> field between two byte fields.
StructWithArray == <<Member(1, 1), Member(sizeof_Array, alignof_Array), Member(1, 1)>>

\* Address of the source storage, after the Array and a guard.
SrcBase == BufBase + sizeof_Array + GuardBytes

MemTop == SrcBase + LS * sizeofT + GuardBytes

Addr == 0..(MemTop - 1)

\* Initial contents: every byte of memory holds a different value.
InitByte(a) == 16 + a

\* p + k for a T *p.
PtrAdd(p, k) == p + k * sizeofT

RECURSIVE Pow256(_)
Pow256(k) == IF k = 0 THEN 1 ELSE 256 * Pow256(k - 1)

\* The values a T can hold.
TVals == {v \in Vals : v < Pow256(sizeofT)}

\* Byte k of the object representation of val (least significant byte first).
ByteOf(val, k) == (val \div Pow256(k)) % 256

\* p[i] = val for a T *p.
Store(m, p, i, val) ==
    [a \in DOMAIN m |->
        IF a >= PtrAdd(p, i) /\ a < PtrAdd(p, i + 1)
        THEN ByteOf(val, a - PtrAdd(p, i))
        ELSE m[a]]

RECURSIVE LoadBytes(_, _, _)
LoadBytes(m, a, n) == IF n = 0 THEN 0 ELSE m[a] + 256 * LoadBytes(m, a + 1, n - 1)

\* The value of p[i] for a T *p.
Load(m, p, i) == LoadBytes(m, PtrAdd(p, i), sizeofT)

\* memcpy(dst, src, n) over non-overlapping ranges.
memcpy(m, dst, src, n) ==
    [a \in DOMAIN m |->
        IF a >= dst /\ a < dst + n THEN m[src + (a - dst)] ELSE m[a]]

RECURSIVE XorBits(_, _, _)
XorBits(a, b, n) ==
    IF n = 0 THEN 0
    ELSE ((a + b) % 2) + 2 * XorBits(a \div 2, b \div 2, n - 1)

\* a ^ b on values of 8 * sizeofT bits.
BitXor(a, b) == XorBits(a, b, 8 * sizeofT)


\* ------------------------------------------------------------ static checks

\* SLICE_METH_ASSERTS without the check of End against L.
SLICE_METH_ASSERTS_noend(Start, End, len) ==
    /\ Start <= len
    /\ End >= Start

SLICE_METH_ASSERTS(Start, End, len) ==
    /\ Start <= len
    /\ End <= len
    /\ End >= Start

\* DATA_METH_ASSERTS with an off-by-one comparison.
DATA_METH_ASSERTS_le(Offset, len) == Offset <= len

DATA_METH_ASSERTS(Offset, len) == Offset < len

\* ------------------------------------------------------------------- views

\* A CSlice<T, L> (mut = FALSE) or Slice<T, L> (mut = TRUE) object.
View(data, len, mut) == [data |-> data, L |-> len, mut |-> mut]

\* CSlice() / Slice(): a view pointing to nothing.
DefaultView(len, mut) == View(NULL, len, mut)

\* CArrayPtr(data, size), read back through data() and size().
CArrayPtr(data, size) == [data |-> data, size |-> size]

\* ------------------------------------------------------------------ CSlice

CSlice_cdata_ok(v, Offset) == DATA_METH_ASSERTS(Offset, v.L)

CSlice_cdata(v, Offset) == PtrAdd(v.data, Offset)

\* operator[] const: the address of the element the returned reference names.
CSlice_index(v, i) == PtrAdd(v.data, i)

\* operator& passing the size in bytes as the number of elements.
CSlice_amp_bytes(v) == CArrayPtr(v.data, v.L * sizeofT)

CSlice_amp(v) == CArrayPtr(v.data, v.L)

CSlice_sizeBytes(v) == v.L * sizeofT

CSlice_cslice_ok(v, Start, End) ==
    /\ SLICE_METH_ASSERTS(Start, End, v.L)
    /\ CSlice_cdata_ok(v, Start)

CSlice_cslice(v, Start, End) == View(CSlice_cdata(v, Start), End - Start, FALSE)

\* ------------------------------------------------------------------- Slice

Slice_data_ok(v, Offset) == CSlice_cdata_ok(v, Offset)

Slice_data(v, Offset) == CSlice_cdata(v, Offset)

\* operator[]: this->data()[i]
Slice_index_ok(v) == Slice_data_ok(v, 0)

Slice_index(v, i) == PtrAdd(Slice_data(v, 0), i)

Slice_fill_ok(v) == Slice_index_ok(v)

RECURSIVE Slice_fill_loop(_, _, _, _)
Slice_fill_loop(m, v, i, val) ==
    IF i < v.L
    THEN Slice_fill_loop(Store(m, Slice_data(v, 0), i, val), v, i + 1, val)
    ELSE m

\* Slice::fill with the loop started at 1.
Slice_fill_from1(m, v, val) == Slice_fill_loop(m, v, 1, val)

Slice_fill(m, v, val) == Slice_fill_loop(m, v, 0, val)

Slice_assign_ok(v, data) ==
    /\ data.L <= v.L
    /\ Slice_data_ok(v, 0)
    /\ CSlice_cdata_ok(data, 0)

\* Slice::assign passing the element count, not the byte count, to memcpy.
Slice_assign_size(m, v, data) ==
    memcpy(m, Slice_data(v, 0), CSlice_cdata(data, 0), data.L)

Slice_assign(m, v, data) ==
    memcpy(m, Slice_data(v, 0), CSlice_cdata(data, 0), CSlice_sizeBytes(data))

\* Slice::slice taking its pointer from data<Start>(), as CSlice::cslice does.
Slice_slice_ok_strict(v, Start, End) ==
    /\ SLICE_METH_ASSERTS(Start, End, v.L)
    /\ Slice_data_ok(v, Start)

Slice_slice_ok(v, Start, End) ==
    /\ SLICE_METH_ASSERTS(Start, End, v.L)
    /\ Slice_data_ok(v, 0)

\* Slice::slice without the offset Start.
Slice_slice_nostart(v, Start, End) == View(Slice_data(v, 0), End - Start, TRUE)

\* Slice::slice adding Start to the address as a number of bytes.
Slice_slice_bytes(v, Start, End) == View(Slice_data(v, 0) + Start, End - Start, TRUE)

Slice_slice(v, Start, End) == View(PtrAdd(Slice_data(v, 0), Start), End - Start, TRUE)

\* ------------------------------------------------------------------- Array

Array_cdata_ok(Offset) == DATA_METH_ASSERTS(Offset, L)

Array_cdata(Offset) == PtrAdd(BufBase, Offset)

Array_data_ok(Offset) == Array_cdata_ok(Offset)

Array_data(Offset) == Array_cdata(Offset)

\* operator[]: the address of this->_data[i].
Array_index(i) == PtrAdd(BufBase, i)

Array_amp == CArrayPtr(BufBase, L)

Array_cslice_ok(Start, End) == SLICE_METH_ASSERTS(Start, End, L)

Array_cslice(Start, End) == View(PtrAdd(BufBase, Start), End - Start, FALSE)

Array_slice_ok(Start, End) == SLICE_METH_ASSERTS(Start, End, L)

Array_slice(Start, End) == View(PtrAdd(BufBase, Start), End - Start, TRUE)

Array_fill_ok ==
    /\ Array_slice_ok(0, L)
    /\ Slice_fill_ok(Array_slice(0, L))

Array_fill(m, val) == Slice_fill(m, Array_slice(0, L), val)

Array_assign_ok(data) ==
    /\ data.L <= L
    /\ Array_slice_ok(0, L)
    /\ Slice_assign_ok(Array_slice(0, L), data)

Array_assign(m, data) == Slice_assign(m, Array_slice(0, L), data)

\* ------------------------------------------------------------ operator^=

\* The loop of operator^= from the value i holds when the loop is entered.
RECURSIVE xor_loop(_, _, _)
xor_loop(m, i, v) ==
    IF i < L
    THEN xor_loop(Store(m, Array_index(i), 0, BitXor(Load(m, Array_index(i), 0), v)),
                  i + 1, v)
    ELSE m

\* `size_t i;` is not initialised: i0 is the indeterminate value read from it.
operator_xor_assign(m, i0, v) == xor_loop(m, i0, v)

\* The values of i0 that behave differently: every i0 >= L skips the loop.
IndeterminateIndex == 0..L

\* ------------------------------------------------------------ operator<<

operator_shl_Slice_ok(dest, data) ==
    /\ Slice_assign_ok(dest, data)
    /\ Slice_slice_ok(dest, data.L, dest.L)

\* operator<< returning the front of dest instead of what follows the copy.
operator_shl_Slice_front(m, dest, data) ==
    [mem |-> Slice_assign(m, dest, data),
     ret |-> Slice_slice(dest, 0, dest.L - data.L)]

operator_shl_Slice(m, dest, data) ==
    [mem |-> Slice_assign(m, dest, data),
     ret |-> Slice_slice(dest, data.L, dest.L)]

operator_shl_Array_ok(data) ==
    /\ Array_slice_ok(0, L)
    /\ operator_shl_Slice_ok(Array_slice(0, L), data)

operator_shl_Array(m, data) == operator_shl_Slice(m, Array_slice(0, L), data)

\* -------------------------------------------------------------------- cast

\* cast with a strict size comparison.
cast_const_ok_lt(sizeofT2) ==
    /\ sizeofT2 < sizeof_Array
    /\ Array_cdata_ok(0)

\* cast<T2>(const ByteArray<L>&), sizeofT2 = sizeof(T2).
cast_const_ok(sizeofT2) ==
    /\ sizeofT2 <= sizeof_Array
    /\ Array_cdata_ok(0)

cast_const == Array_cdata(0)

\* cast<T2>(ByteArray<L>&)
cast_mut_ok(sizeofT2) == cast_const_ok(sizeofT2)

cast_mut == cast_const


\* ---------------------------------------------------------- the state machine

NoView == View(NULL, 0, FALSE)

\* The Array seen as the receiver of an operation.
ArrayRecv == View(BufBase, L, TRUE)

Rec(op, onArray, recv, p1, p2, src, accepted, ret, pre) ==
    [op |-> op, onArray |-> onArray, recv |-> recv, p1 |-> p1, p2 |-> p2,
     src |-> src, accepted |-> accepted, ret |-> ret, pre |-> pre]

\* A pointer result, recorded as a view of no elements.
PtrRet(p) == View(p, 0, FALSE)

\* The [first, last) byte addresses a view of len elements at p covers.
Disjoint(p, plen, q, qlen) ==
    \/ PtrAdd(p, plen) <= q
    \/ PtrAdd(q, qlen) <= p

\* The CSlice<T, n> views over n elements of an array of len elements at base
\* (the n elements really exist, as the constructor CSlice(const T *) requires).
ViewsOver(base, len) ==
    {View(PtrAdd(base, x[1]), x[2], FALSE) :
        x \in {y \in (0..len) \X (0..len) : y[1] + y[2] <= len}}

\* The views passed as the source of assign and operator<<: the first n
\* elements of the source storage, or any n elements of the Array itself.
SourceViews == {View(SrcBase, n, FALSE) : n \in 0..LS} \cup ViewsOver(BufBase, L)

Init ==
    /\ sizeofT \in Sizes
    /\ L \in 0..MaxLen
    /\ LS = MaxLen + 1
    /\ mem = [a \in Addr |-> InitByte(a)]
    /\ cur = DefaultView(L, TRUE)
    /\ last = Rec("none", FALSE, NoView, 0, 0, NoView, FALSE, NoView, mem)
    /\ steps = 0

\* An operation that does not touch memory: it is accepted and returns ret, or
\* it is rejected at compile time.
Record(op, onArray, recv, p1, p2, src, ok, ret) ==
    /\ steps' = steps + 1
    /\ last' = Rec(op, onArray, recv, p1, p2, src, ok, IF ok THEN ret ELSE NoView, mem)
    /\ UNCHANGED <<sizeofT, L, LS>>

\* One of the at most MaxSteps operations of a run.
Step(op, onArray, recv, p1, p2, src, ok, ret) ==
    /\ steps < MaxSteps
    /\ Record(op, onArray, recv, p1, p2, src, ok, ret)

\* ---- Array operations

ArrayCdata ==
    \E Offset \in 0..(L + 1) :
        /\ Step("cdata", TRUE, ArrayRecv, Offset, 0, NoView,
                Array_cdata_ok(Offset), PtrRet(Array_cdata(Offset)))
        /\ UNCHANGED <<mem, cur>>

ArrayData ==
    \E Offset \in 0..(L + 1) :
        /\ Step("data", TRUE, ArrayRecv, Offset, 0, NoView,
                Array_data_ok(Offset), PtrRet(Array_data(Offset)))
        /\ UNCHANGED <<mem, cur>>

ArrayIndex ==
    \E i \in 0..(L - 1) :
        /\ Step("index", TRUE, ArrayRecv, i, 0, NoView, TRUE, PtrRet(Array_index(i)))
        /\ UNCHANGED <<mem, cur>>

ArrayAmp ==
    /\ Step("amp", TRUE, ArrayRecv, 0, 0, NoView, TRUE,
            View(Array_amp.data, Array_amp.size, FALSE))
    /\ UNCHANGED <<mem, cur>>

ArrayCslice ==
    \E Start \in 0..(L + 1), End \in 0..(L + 1) :
        /\ Step("cslice", TRUE, ArrayRecv, Start, End, NoView,
                Array_cslice_ok(Start, End), Array_cslice(Start, End))
        /\ cur' = IF Array_cslice_ok(Start, End) THEN Array_cslice(Start, End) ELSE cur
        /\ UNCHANGED mem

ArraySlice ==
    \E Start \in 0..(L + 1), End \in 0..(L + 1) :
        /\ Step("slice", TRUE, ArrayRecv, Start, End, NoView,
                Array_slice_ok(Start, End), Array_slice(Start, End))
        /\ cur' = IF Array_slice_ok(Start, End) THEN Array_slice(Start, End) ELSE cur
        /\ UNCHANGED mem

ArrayFill ==
    \E val \in TVals :
        /\ Step("fill", TRUE, ArrayRecv, val, 0, NoView, Array_fill_ok, NoView)
        /\ mem' = IF Array_fill_ok THEN Array_fill(mem, val) ELSE mem
        /\ UNCHANGED cur

ArrayAssign ==
    \E data \in SourceViews :
        /\ Array_assign_ok(data) => Disjoint(BufBase, L, data.data, data.L)
        /\ Step("assign", TRUE, ArrayRecv, data.L, 0, data,
                Array_assign_ok(data), NoView)
        /\ mem' = IF Array_assign_ok(data) THEN Array_assign(mem, data) ELSE mem
        /\ UNCHANGED cur

ArrayWrite ==
    \E data \in SourceViews :
        /\ operator_shl_Array_ok(data) => Disjoint(BufBase, L, data.data, data.L)
        /\ Step("write", TRUE, ArrayRecv, data.L, 0, data,
                operator_shl_Array_ok(data), operator_shl_Array(mem, data).ret)
        /\ mem' = IF operator_shl_Array_ok(data)
                  THEN operator_shl_Array(mem, data).mem ELSE mem
        /\ cur' = IF operator_shl_Array_ok(data)
                  THEN operator_shl_Array(mem, data).ret ELSE cur

ArrayXor ==
    \E v \in XorVals, i0 \in IndeterminateIndex :
        /\ Step("xor", TRUE, ArrayRecv, v, 0, NoView, TRUE, NoView)
        /\ mem' = operator_xor_assign(mem, i0, v)
        /\ UNCHANGED cur

\* cast takes a ByteArray<L>: the Array must be an Array<unsigned char, L>.
CastConst ==
    \E sizeofT2 \in 1..(L + 1) :
        /\ sizeofT = 1
        /\ Step("cast_const", TRUE, ArrayRecv, sizeofT2, 0, NoView,
                cast_const_ok(sizeofT2), PtrRet(cast_const))
        /\ UNCHANGED <<mem, cur>>

CastMut ==
    \E sizeofT2 \in 1..(L + 1) :
        /\ sizeofT = 1
        /\ Step("cast_mut", TRUE, ArrayRecv, sizeofT2, 0, NoView,
                cast_mut_ok(sizeofT2), PtrRet(cast_mut))
        /\ UNCHANGED <<mem, cur>>

\* ---- operations on the view cur (which must point to something, except
\* for operator&)

ViewCdata ==
    \E Offset \in 0..(cur.L + 1) :
        /\ cur.data # NULL
        /\ Step("cdata", FALSE, cur, Offset, 0, NoView,
                CSlice_cdata_ok(cur, Offset), PtrRet(CSlice_cdata(cur, Offset)))
        /\ UNCHANGED <<mem, cur>>

ViewData ==
    \E Offset \in 0..(cur.L + 1) :
        /\ cur.data # NULL
        /\ cur.mut
        /\ Step("data", FALSE, cur, Offset, 0, NoView,
                Slice_data_ok(cur, Offset), PtrRet(Slice_data(cur, Offset)))
        /\ UNCHANGED <<mem, cur>>

\* operator[] of a CSlice (const) or of a Slice.
ViewIndex ==
    \E i \in 0..(cur.L - 1) :
        /\ cur.data # NULL
        /\ IF cur.mut
           THEN Step("index", FALSE, cur, i, 0, NoView,
                     Slice_index_ok(cur), PtrRet(Slice_index(cur, i)))
           ELSE Step("index", FALSE, cur, i, 0, NoView,
                     TRUE, PtrRet(CSlice_index(cur, i)))
        /\ UNCHANGED <<mem, cur>>

ViewAmp ==
    /\ Step("amp", FALSE, cur, 0, 0, NoView, TRUE,
            View(CSlice_amp(cur).data, CSlice_amp(cur).size, FALSE))
    /\ UNCHANGED <<mem, cur>>

ViewCslice ==
    \E Start \in 0..(cur.L + 1), End \in 0..(cur.L + 1) :
        /\ cur.data # NULL
        /\ Step("cslice", FALSE, cur, Start, End, NoView,
                CSlice_cslice_ok(cur, Start, End), CSlice_cslice(cur, Start, End))
        /\ cur' = IF CSlice_cslice_ok(cur, Start, End)
                  THEN CSlice_cslice(cur, Start, End) ELSE cur
        /\ UNCHANGED mem

ViewSlice ==
    \E Start \in 0..(cur.L + 1), End \in 0..(cur.L + 1) :
        /\ cur.data # NULL
        /\ cur.mut
        /\ Step("slice", FALSE, cur, Start, End, NoView,
                Slice_slice_ok(cur, Start, End), Slice_slice(cur, Start, End))
        /\ cur' = IF Slice_slice_ok(cur, Start, End)
                  THEN Slice_slice(cur, Start, End) ELSE cur
        /\ UNCHANGED mem

ViewFill ==
    \E val \in TVals :
        /\ cur.data # NULL
        /\ cur.mut
        /\ Step("fill", FALSE, cur, val, 0, NoView, Slice_fill_ok(cur), NoView)
        /\ mem' = IF Slice_fill_ok(cur) THEN Slice_fill(mem, cur, val) ELSE mem
        /\ UNCHANGED cur

ViewAssign ==
    \E data \in SourceViews :
        /\ cur.data # NULL
        /\ cur.mut
        /\ Slice_assign_ok(cur, data) => Disjoint(cur.data, cur.L, data.data, data.L)
        /\ Step("assign", FALSE, cur, data.L, 0, data, Slice_assign_ok(cur, data), NoView)
        /\ mem' = IF Slice_assign_ok(cur, data) THEN Slice_assign(mem, cur, data) ELSE mem
        /\ UNCHANGED cur

ViewWrite ==
    \E data \in SourceViews :
        /\ cur.data # NULL
        /\ cur.mut
        /\ operator_shl_Slice_ok(cur, data) =>
               Disjoint(cur.data, cur.L, data.data, data.L)
        /\ Step("write", FALSE, cur, data.L, 0, data,
                operator_shl_Slice_ok(cur, data), operator_shl_Slice(mem, cur, data).ret)
        /\ mem' = IF operator_shl_Slice_ok(cur, data)
                  THEN operator_shl_Slice(mem, cur, data).mem ELSE mem
        /\ cur' = IF operator_shl_Slice_ok(cur, data)
                  THEN operator_shl_Slice(mem, cur, data).ret ELSE cur

Next ==
    \/ ArrayCdata \/ ArrayData \/ ArrayIndex \/ ArrayAmp
    \/ ArrayCslice \/ ArraySlice \/ ArrayFill \/ ArrayAssign \/ ArrayWrite
    \/ ArrayXor \/ CastConst \/ CastMut
    \/ ViewCdata \/ ViewData \/ ViewIndex \/ ViewAmp
    \/ ViewCslice \/ ViewSlice \/ ViewFill \/ ViewAssign \/ ViewWrite

Spec == Init /\ [][Next]_vars


\* ------------------------------------------------- the parsing scenario

\* A message: a tag byte, a 32-byte payload and a 4-byte id, 37 bytes in all.
TagLen == 1

PayloadLen == 32

IdLen == 4

MsgLen == TagLen + PayloadLen + IdLen

TagValue == 1

\* Offsets of the fields of the structure the buffer is cast to.
TagOffset == 0

PayloadOffset == TagOffset + TagLen

IdOffset == PayloadOffset + PayloadLen

\* The fillers and ids the scenario is run with.
FillerStarts == {0, 170}

FillerStrides == {0, 1}

IdBytes == {0, 1, 255}

\* The source storage holds the tag, the filler and the id, one after another.
InitParse ==
    /\ sizeofT = 1
    /\ L = MsgLen
    /\ LS = MsgLen
    /\ \E f \in FillerStarts, d \in FillerStrides, id \in [0..(IdLen - 1) -> IdBytes] :
           mem = [a \in Addr |->
                    IF a = SrcBase + TagOffset THEN TagValue
                    ELSE IF a >= SrcBase + PayloadOffset /\ a < SrcBase + IdOffset
                         THEN (f + d * (a - (SrcBase + PayloadOffset))) % 256
                    ELSE IF a >= SrcBase + IdOffset /\ a < SrcBase + MsgLen
                         THEN id[a - (SrcBase + IdOffset)]
                    ELSE InitByte(a)]
    /\ cur = DefaultView(L, TRUE)
    /\ last = Rec("none", FALSE, NoView, 0, 0, NoView, FALSE, NoView, mem)
    /\ steps = 0

TagView == View(SrcBase + TagOffset, TagLen, FALSE)

FillerView == View(SrcBase + PayloadOffset, PayloadLen, FALSE)

IdView == View(SrcBase + IdOffset, IdLen, FALSE)

\* buf << tag
ParseWriteTag ==
    /\ steps = 0
    /\ Record("write", TRUE, ArrayRecv, TagView.L, 0, TagView,
              operator_shl_Array_ok(TagView), operator_shl_Array(mem, TagView).ret)
    /\ mem' = IF operator_shl_Array_ok(TagView)
              THEN operator_shl_Array(mem, TagView).mem ELSE mem
    /\ cur' = IF operator_shl_Array_ok(TagView)
              THEN operator_shl_Array(mem, TagView).ret ELSE cur

\* The next write of the chain, into the remainder the previous one returned.
ParseWriteNext(data) ==
    /\ last.accepted
    /\ Record("write", FALSE, cur, data.L, 0, data,
              operator_shl_Slice_ok(cur, data), operator_shl_Slice(mem, cur, data).ret)
    /\ mem' = IF operator_shl_Slice_ok(cur, data)
              THEN operator_shl_Slice(mem, cur, data).mem ELSE mem
    /\ cur' = IF operator_shl_Slice_ok(cur, data)
              THEN operator_shl_Slice(mem, cur, data).ret ELSE cur

\* ... << filler
ParseWriteFiller == steps = 1 /\ ParseWriteNext(FillerView)

\* ... << id
ParseWriteId == steps = 2 /\ ParseWriteNext(IdView)

\* cast<Msg>(buf), sizeof(Msg) = MsgLen
ParseCast ==
    /\ steps = 3
    /\ last.accepted
    /\ Record("cast_const", TRUE, ArrayRecv, MsgLen, 0, NoView,
              cast_const_ok(MsgLen), PtrRet(cast_const))
    /\ UNCHANGED <<mem, cur>>

NextParse == ParseWriteTag \/ ParseWriteFiller \/ ParseWriteId \/ ParseCast

SpecParse == InitParse /\ [][NextParse]_vars

\* ----------------------------------------------------------- chained writes

\* buf << s1 << s2 << ...: each write goes into the remainder the previous one
\* returned.  The sources s1, s2, ... lie one after another in the source
\* storage, so the end of the last source is the number of elements written.
InitChain ==
    /\ sizeofT \in Sizes
    /\ L \in 0..MaxChainLen
    /\ LS = MaxChainLen + 1
    /\ mem = [a \in Addr |-> InitByte(a)]
    /\ cur = DefaultView(L, TRUE)
    /\ last = Rec("none", FALSE, NoView, 0, 0, NoView, FALSE, NoView, mem)
    /\ steps = 0

\* len(s1) + ... + len(si) after the i-th write.
ChainWritten ==
    IF steps = 0 THEN 0
    ELSE (last.src.data - SrcBase) \div sizeofT + last.src.L

\* The next n elements of the source storage.
ChainSource(n) == View(PtrAdd(SrcBase, ChainWritten), n, FALSE)

\* buf << s1
ChainFirst ==
    \E n \in 0..(L + 1) :
        /\ steps = 0
        /\ Record("write", TRUE, ArrayRecv, n, 0, ChainSource(n),
                  operator_shl_Array_ok(ChainSource(n)),
                  operator_shl_Array(mem, ChainSource(n)).ret)
        /\ mem' = IF operator_shl_Array_ok(ChainSource(n))
                  THEN operator_shl_Array(mem, ChainSource(n)).mem ELSE mem
        /\ cur' = IF operator_shl_Array_ok(ChainSource(n))
                  THEN operator_shl_Array(mem, ChainSource(n)).ret ELSE cur

\* ... << si, into the remainder of the previous write
ChainNext ==
    \E n \in 0..(cur.L + 1) :
        /\ steps > 0
        /\ last.accepted
        /\ Record("write", FALSE, cur, n, 0, ChainSource(n),
                  operator_shl_Slice_ok(cur, ChainSource(n)),
                  operator_shl_Slice(mem, cur, ChainSource(n)).ret)
        /\ mem' = IF operator_shl_Slice_ok(cur, ChainSource(n))
                  THEN operator_shl_Slice(mem, cur, ChainSource(n)).mem ELSE mem
        /\ cur' = IF operator_shl_Slice_ok(cur, ChainSource(n))
                  THEN operator_shl_Slice(mem, cur, ChainSource(n)).ret ELSE cur

NextChain == ChainFirst \/ ChainNext

SpecChain == InitChain /\ [][NextChain]_vars

\* ------------------------------------------------------------------ claims

SubviewOps == {"cslice", "slice"}

\* C1: a sub-view operation <Start, End> on a view or buffer of length L is
\* accepted at compile time if and only if 0 <= Start <= End <= L.
C1_SubviewAcceptedIff ==
    last.op \in SubviewOps =>
        (last.accepted <=>
            (0 <= last.p1 /\ last.p1 <= last.p2 /\ last.p2 <= last.recv.L))

\* C2: an accepted assign(source) with a source of L2 <= L elements makes
\* destination[i] = source[i] for i in 0..L2-1, leaves destination[i] unchanged
\* for i in L2..L-1, and leaves the source's elements unchanged.
C2_AssignCopiesPrefix ==
    (last.op = "assign" /\ last.accepted) =>
        /\ last.src.L <= last.recv.L
        /\ \A i \in 0..(last.src.L - 1) :
               /\ Load(mem, last.recv.data, i) = Load(last.pre, last.src.data, i)
               /\ Load(mem, last.src.data, i) = Load(last.pre, last.src.data, i)
        /\ \A i \in last.src.L..(last.recv.L - 1) :
               Load(mem, last.recv.data, i) = Load(last.pre, last.recv.data, i)

\* C2 witness: an assign of a source shorter than the destination that changed
\* the destination's first element.
C2_Witness ==
    /\ last.op = "assign"
    /\ last.accepted
    /\ last.src.L >= 1
    /\ last.src.L < last.recv.L
    /\ Load(mem, last.recv.data, 0) # Load(last.pre, last.recv.data, 0)

\* C3: an accepted operator<< on a destination of length L1 with a source of
\* length L2 returns a mutable view of length L1 - L2 whose data pointer is the
\* destination's data pointer advanced by L2 elements.
C3_WriteReturnsRemainder ==
    (last.op = "write" /\ last.accepted) =>
        /\ last.ret.mut
        /\ last.ret.L = last.recv.L - last.src.L
        /\ last.ret.data = last.recv.data + last.src.L * sizeofT
        /\ last.ret.L > 0 =>
               Load(mem, last.ret.data, 0) = Load(mem, last.recv.data, last.src.L)

\* C3 witness: a write that copied something and left a non-empty remainder.
C3_Witness ==
    /\ last.op = "write"
    /\ last.accepted
    /\ last.src.L >= 1
    /\ last.ret.L >= 1

CastOps == {"cast_const", "cast_mut"}

\* C4: cast<T>(buffer) on a byte buffer of length L is accepted if and only if
\* sizeof(T) <= L, and when accepted it returns the buffer's base data pointer
\* and changes no byte.
C4_CastAcceptedIffFits ==
    last.op \in CastOps =>
        /\ last.accepted <=> last.p1 <= L
        /\ last.accepted => (last.ret.data = BufBase /\ mem = last.pre)

\* C4 witness: a cast to a type exactly as large as the buffer.
C4_Witness ==
    /\ last.op = "cast_mut"
    /\ last.accepted
    /\ last.p1 = L

\* C5: applying operator^= with the same byte v twice returns every element of
\* the buffer to its original value.
C5_XorTwiceRestores ==
    [][(/\ last.op = "xor"
        /\ last'.op = "xor"
        /\ last'.p1 = last.p1
        /\ steps' = steps + 1)
       => \A i \in 0..(L - 1) :
              Load(mem', BufBase, i) = Load(last.pre, BufBase, i)]_vars

\* C6: an accepted fill(v) leaves every one of the L elements of the view or
\* buffer equal to v.
C6_FillSetsAll ==
    (last.op = "fill" /\ last.accepted) =>
        \A i \in 0..(last.recv.L - 1) : Load(mem, last.recv.data, i) = last.p1

\* C6 witness: a fill of a view of two or more elements, none of which held
\* the value before.
C6_Witness ==
    /\ last.op = "fill"
    /\ ~last.onArray
    /\ last.accepted
    /\ last.recv.L >= 2
    /\ \A i \in 0..(last.recv.L - 1) : Load(last.pre, last.recv.data, i) # last.p1

\* C7: in the parsing scenario the three chained writes and the cast are all
\* accepted, and the structure read through the cast pointer holds the tag,
\* the filler bytes and the id that were written.
C7_ParseRoundTrip ==
    /\ last.op # "none" => last.accepted
    /\ last.op = "cast_const" =>
           /\ mem[last.ret.data + TagOffset] = TagValue
           /\ \A k \in 0..(PayloadLen - 1) :
                  mem[last.ret.data + PayloadOffset + k] =
                      last.pre[SrcBase + PayloadOffset + k]
           /\ \A k \in 0..(IdLen - 1) :
                  mem[last.ret.data + IdOffset + k] = last.pre[SrcBase + IdOffset + k]

\* C7 witness: the scenario has run to the cast, and the filler written is not
\* a constant byte.
C7_Witness ==
    /\ steps = 4
    /\ last.op = "cast_const"
    /\ last.accepted
    /\ mem[BufBase + PayloadOffset] # mem[BufBase + PayloadOffset + 1]

\* C8: an accepted sub-view <Start, End> of a view or buffer whose data begins
\* at P has length End - Start and data pointer P + Start, so its element i is
\* the parent's element Start + i (const and mutable variants alike).
C8_SubviewRange ==
    (last.op \in SubviewOps /\ last.accepted) =>
        /\ last.ret.L = last.p2 - last.p1
        /\ last.ret.data = last.recv.data + last.p1 * sizeofT
        /\ last.ret.mut = (last.op = "slice")
        /\ \A i \in 0..(last.p2 - last.p1 - 1) :
               Load(mem, last.ret.data, i) = Load(mem, last.recv.data, last.p1 + i)

\* C8 witness: a mutable sub-view of a view that starts after the parent's
\* first element and is not empty.
C8_Witness ==
    /\ last.op = "slice"
    /\ ~last.onArray
    /\ last.accepted
    /\ last.p1 >= 1
    /\ last.p2 > last.p1

DataOps == {"cdata", "data"}

\* C9: cdata<Offset>() and data<Offset>() are rejected unless Offset < L, and
\* when accepted return the base data pointer advanced by Offset elements.
C9_DataOffset ==
    last.op \in DataOps =>
        /\ ~(last.p1 < last.recv.L) => ~last.accepted
        /\ last.accepted => last.ret.data = last.recv.data + last.p1 * sizeofT

\* C9 witness: data<Offset>() accepted with a non-zero offset.
C9_Witness ==
    /\ last.op = "data"
    /\ last.accepted
    /\ last.p1 >= 1

\* What the operation recorded in r does when applied to a Slice<T, L> (for
\* cdata, cslice and operator&: to the CSlice<T, L> it derives from) over the
\* whole storage of the Array: its acceptance, result and memory.
OnWholeView(r) ==
    LET w == View(BufBase, L, TRUE)
        res(ok, ret, m) == [accepted |-> ok, ret |-> IF ok THEN ret ELSE NoView,
                            mem |-> IF ok THEN m ELSE r.pre]
    IN  CASE r.op = "cdata" ->
                res(CSlice_cdata_ok(w, r.p1), PtrRet(CSlice_cdata(w, r.p1)), r.pre)
          [] r.op = "data" ->
                res(Slice_data_ok(w, r.p1), PtrRet(Slice_data(w, r.p1)), r.pre)
          [] r.op = "index" ->
                res(Slice_index_ok(w), PtrRet(Slice_index(w, r.p1)), r.pre)
          [] r.op = "amp" ->
                res(TRUE, View(CSlice_amp(w).data, CSlice_amp(w).size, FALSE), r.pre)
          [] r.op = "cslice" ->
                res(CSlice_cslice_ok(w, r.p1, r.p2), CSlice_cslice(w, r.p1, r.p2), r.pre)
          [] r.op = "slice" ->
                res(Slice_slice_ok(w, r.p1, r.p2), Slice_slice(w, r.p1, r.p2), r.pre)
          [] r.op = "fill" ->
                res(Slice_fill_ok(w), NoView, Slice_fill(r.pre, w, r.p1))
          [] r.op = "assign" ->
                res(Slice_assign_ok(w, r.src), NoView, Slice_assign(r.pre, w, r.src))
          [] r.op = "write" ->
                res(operator_shl_Slice_ok(w, r.src),
                    operator_shl_Slice(r.pre, w, r.src).ret,
                    operator_shl_Slice(r.pre, w, r.src).mem)

EquivOps == {"cdata", "data", "index", "amp", "cslice", "slice", "fill", "assign", "write"}

\* C10: every operation of the Array is accepted or rejected like the same
\* operation on a view of length L over the Array's whole storage, and when
\* accepted returns the same pointer and length and leaves the same contents.
C10_ArrayAsWholeView ==
    (last.onArray /\ last.op \in EquivOps) =>
        /\ last.accepted = OnWholeView(last).accepted
        /\ last.ret = OnWholeView(last).ret
        /\ mem = OnWholeView(last).mem


\* C11: sizeof(Array<T, L>) is exactly L * sizeof(T), with no padding, and an
\* Array embedded as a field of a structure occupies exactly that many bytes:
\* the field after it lies L * sizeof(T) bytes after the Array's first byte.
C11_SizeofArray ==
    /\ sizeof_Array = L * sizeofT
    /\ FieldOffset(StructWithArray, FALSE, 3) - FieldOffset(StructWithArray, FALSE, 2)
           = L * sizeofT
    /\ \A i \in 0..(L - 1) :
           /\ Array_index(i) >= BufBase
           /\ Array_index(i) + sizeofT <= BufBase + sizeof_Array

\* C11 witness: an Array of several elements of a type wider than a byte, on
\* which an operation was called.
C11_Witness ==
    /\ L >= 2
    /\ sizeofT >= 2
    /\ last.onArray


\* C12: operator& is accepted for every view and buffer of every length L,
\* a default (null) view included, and returns a CArrayPtr whose data() is the
\* base pointer and whose size() is L; it changes no element.
C12_AmpErasesLength ==
    last.op = "amp" =>
        /\ last.accepted
        /\ last.ret.data = last.recv.data
        /\ last.ret.L = last.recv.L
        /\ mem = last.pre

\* C12 witness: operator& on a default-constructed view of two or more
\* elements of a type wider than a byte.
C12_Witness ==
    /\ last.op = "amp"
    /\ ~last.onArray
    /\ last.recv.data = NULL
    /\ last.recv.L >= 2
    /\ sizeofT >= 2


\* C13: after each accepted write of a chain buf << s1 << ... << sk the buffer
\* holds s1 ++ ... ++ si followed by its original elements, the remainder
\* returned has length L - (len(s1)+...+len(si)) and starts at that index of
\* the buffer, and the write changed nothing an earlier write had written.
C13_ChainedWrites ==
    (last.op = "write" /\ last.accepted) =>
        /\ ChainWritten <= L
        /\ \A a \in 0..(ChainWritten * sizeofT - 1) :
               mem[BufBase + a] = InitByte(SrcBase + a)
        /\ \A a \in (ChainWritten * sizeofT)..(L * sizeofT - 1) :
               mem[BufBase + a] = InitByte(BufBase + a)
        /\ last.ret.L = L - ChainWritten
        /\ last.ret.data = BufBase + ChainWritten * sizeofT
        /\ cur = last.ret
        /\ \A a \in 0..((ChainWritten - last.src.L) * sizeofT - 1) :
               mem[BufBase + a] = last.pre[BufBase + a]

\* C13 witness: the third write of a chain, which leaves a remainder.
C13_Witness ==
    /\ steps = 3
    /\ last.op = "write"
    /\ last.accepted
    /\ last.ret.L >= 1


CopyOps == {"assign", "write"}

\* C14: assign(source) and operator<< with a source of length L2 on a
\* destination of length L are accepted if and only if L2 <= L, for all
\* lengths, 0 included.
C14_AssignAcceptedIff ==
    last.op \in CopyOps => (last.accepted <=> last.src.L <= last.recv.L)

\* The first and one-past-last byte addresses of the Array's storage.
BufEnd == BufBase + L * sizeofT

\* The view v covers elements [s, s + n) of the Array with 0 <= s, s + n <= L.
InArray(v) ==
    /\ v.data >= BufBase
    /\ (v.data - BufBase) % sizeofT = 0
    /\ v.data + v.L * sizeofT <= BufEnd

WriteOps == {"fill", "assign", "write"}

\* C15: every view obtained from the Array by accepted operations covers a
\* range of the Array's elements; every pointer cdata<Offset>/data<Offset>
\* returns on the Array or on such a view addresses an element of the Array;
\* fill, assign and operator<< through the Array or such a view change no byte
\* outside the receiver's range.
C15_Containment ==
    /\ cur.data # NULL => InArray(cur)
    /\ (last.op \in DataOps /\ last.accepted) =>
           /\ last.ret.data >= BufBase
           /\ last.ret.data + sizeofT <= BufEnd
           /\ (last.ret.data - BufBase) % sizeofT = 0
    /\ (last.op \in WriteOps /\ last.accepted) =>
           \A a \in Addr :
               (a < last.recv.data \/ a >= last.recv.data + last.recv.L * sizeofT)
                   => mem[a] = last.pre[a]

\* C15 witness: a fill through a view that covers neither the first nor the
\* last element of the Array.
C15_Witness ==
    /\ last.op = "fill"
    /\ ~last.onArray
    /\ last.accepted
    /\ last.recv.L >= 1
    /\ last.recv.data > BufBase
    /\ last.recv.data + last.recv.L * sizeofT < BufEnd
    /\ mem # last.pre

====
